---- MODULE Spec2Model ----
(***************************************************************************)
(* Model of the radix-sort histogram scan (sort/src/kernels/sorthist.cu)   *)
(* and of the unified reduction policy (b40c/reduction/policy.cuh).        *)
(*                                                                         *)
(* SortHist runs as one block of NumThreads threads grouped in warps of    *)
(* WARP_SIZE lanes.  A warp executes in lockstep: every instruction is     *)
(* performed by all of its lanes before the next one starts.  Warps are    *)
(* interleaved by the scheduler and meet only at __syncthreads.  One       *)
(* action of the model is one warp (or group of warps) executing the code  *)
(* between two consecutive barriers.                                       *)
(*                                                                         *)
(* A uint is represented by the integer congruent to it modulo 2^32 in     *)
(* -2^31 .. 2^31-1, so every value below 2^31 represents itself.           *)
(*                                                                         *)
(* Arrays indexed by a shared-memory slot or by a thread are kept in rows  *)
(* of WARP_SIZE entries: a[i \div WARP_SIZE][i % WARP_SIZE] is the array's  *)
(* element i, and row w of a per-thread register holds the lanes of warp w.*)
(***************************************************************************)
EXTENDS Integers, Sequences, FiniteSets, TLC

----------------------------------------------------------------------------
(* Program constants *)

NumThreads == 1024
WARP_SIZE == 32
LOG_WARP_SIZE == 5
InstantiatedNumBits == 1..7

(* Bounds of the model *)

\* warps 0..FreeWarps-1 are scheduled one by one; the remaining warps run
\* each barrier interval back to back, in index order
FreeWarps == 1
\* a task count smaller than every column count
SmallTasks == 3
\* tasks beyond one per column
ExtraTasks == 1
\* number of count patterns, and largest count of a pattern
MaxPattern == 1
MaxCount == 9
\* largest log tunable and largest upsweep occupancy of a reduction policy
MaxLog == 1
MaxOccupancy == 2
\* slots of global memory beyond those the launch is given
SpareSlots == 1

----------------------------------------------------------------------------
(* 32-bit unsigned arithmetic *)

MaxInt32 == (2 ^ 30 - 1) + 2 ^ 30
MinInt32 == (0 - MaxInt32) - 1

Add32(a, b) ==
    IF a >= 0 /\ b > MaxInt32 - a
    THEN ((a - MaxInt32) - 1) + ((b - MaxInt32) - 1)
    ELSE IF a < 0 /\ b < MinInt32 - a
         THEN ((a + MaxInt32) + 1) + ((b + MaxInt32) + 1)
         ELSE a + b

Neg32(a) == IF a = MinInt32 THEN MinInt32 ELSE 0 - a

Sub32(a, b) == Add32(a, Neg32(b))

Mul4(a) == LET d == Add32(a, a) IN Add32(d, d)

\* 1 << n
Pow2(n) == 2 ^ n

\* the masks 0...01...1
LowBits == {Pow2(k) - 1 : k \in 0..30}

RECURSIVE BitAndBits(_, _)
BitAndBits(a, b) ==
    IF a = 0 \/ b = 0 THEN 0
    ELSE 2 * BitAndBits(a \div 2, b \div 2) + (IF a % 2 = 1 /\ b % 2 = 1 THEN 1 ELSE 0)

\* a & b on non-negative operands; a mask of k low bits keeps b modulo 2^k
BitAnd(a, b) == IF a \in LowBits THEN b % (a + 1) ELSE BitAndBits(a, b)

Min(a, b) == IF a < b THEN a ELSE b

----------------------------------------------------------------------------
(* Index spaces *)

NumWarps == NumThreads \div WARP_SIZE
Threads == 0..(NumThreads - 1)
Lanes == 0..(WARP_SIZE - 1)
Warps == 0..(NumWarps - 1)
SharedSlots == 0..(2 * NumThreads - 1)
TotalsSlots == 0..(NumThreads - 1)

AllLanes == [l \in Lanes |-> TRUE]

\* element i of an array kept in rows
At(a, i) == a[i \div WARP_SIZE][i % WARP_SIZE]

\* an array of n entries, all equal to v
Filled(n, v) == [r \in 0..((n \div WARP_SIZE) - 1) |-> [o \in Lanes |-> v]]

----------------------------------------------------------------------------
(* State *)

VARIABLES
    NumBits,              \* template parameter of the instantiated kernel
    numTasks,             \* kernel argument
    hasTotals,            \* totalsScan_global is a non-null pointer
    counts0,              \* blockTotals_global as it was at launch
    blockTotals_global,   \* global array, read and overwritten in place
    totalsScan_global,    \* global array of NumDigits entries
    counts_shared,        \* __shared__ uint counts_shared[2 * NumThreads]
    totals_shared,        \* __shared__ uint totals_shared[NumThreads]
    laneCount,            \* SortHist local, per thread
    x,                    \* StridedMultiScan parameter x, per thread
    scanLaneExc,          \* StridedMultiScan local laneExc (regime A), per thread
    scanResult,           \* value returned by StridedMultiScan, per thread
    laneExc,              \* SortHist local laneExc, per thread
    pc,                   \* per warp: number of barrier intervals completed
    sharedLog, totalsLog,         \* accesses of the running barrier interval
    prevSharedLog, prevTotalsLog, \* accesses of the interval before it
    conflict,             \* barriers (source lines) passed so far that separate
                          \* conflicting accesses of two different warps
    globalLog,            \* accesses of global memory since the launch
    policy                \* the composed reduction policy, or its tunables

vars == <<NumBits, numTasks, hasTotals, counts0, blockTotals_global,
          totalsScan_global, counts_shared, totals_shared, laneCount, x,
          scanLaneExc, scanResult, laneExc, pc, sharedLog, totalsLog,
          prevSharedLog, prevTotalsLog, conflict, globalLog, policy>>

NumDigits == Pow2(NumBits)
NumColumns == NumThreads \div NumDigits
RegimeA == NumDigits < WARP_SIZE

\* content of memory nobody has written yet
Untouched == 0 - 1

----------------------------------------------------------------------------
(* Faulty variants of operators of the kernel: each property stated below  *)
(* for the kernel fails for the kernel with one of these in place of the   *)
(* operator it is a variant of.                                            *)

\* warp totals without the padding slot per digit
WarpTotalIndexUnpadded(lane2, warp) == WARP_SIZE * lane2 + warp

\* the last digit is not scanned
ScansDigitButLast(warp) == warp < NumDigits - 1

\* scaling by 2
Doubled(exc) == Add32(exc, exc)

\* scaling that stops at the largest 32-bit value instead of wrapping around
ScaledClamped(exc) == IF exc >= 0 /\ exc < Pow2(30) THEN Mul4(exc) ELSE 0 - 1

\* one row of NumThreads + 1 slots per digit for the warp totals
WarpTotalIndexByBlock(lane2, warp) == (NumThreads + 1) * lane2 + warp

\* totals read without the padding slot per warp
TotalsOutIndexUnpadded(tid) == tid

\* the offset of a digit within the block is left out
SumWithoutTotal(totalExc, warpExc, lanePart) == Add32(warpExc, lanePart)

\* the last duplicate of each digit is not folded
NumDuplicatesButLast == (NumThreads \div NumDigits) - 1

\* the mask is applied to NumColumns instead of NumColumns - 1
RemOfColumns == BitAnd(NumColumns, numTasks)

\* every lane stores its sum as the warp total
HoldsWarpTotalAlways(lane) == TRUE

\* the totals are scanned by the first two warps
ScansTotalsTwoWarps(tid) == tid < 2 * WARP_SIZE

----------------------------------------------------------------------------
(* Shared memory of the block.  A memory m is its content m.v and the      *)
(* record m.log of the accesses since the last barrier: log.wr[w] holds    *)
(* <<slot, thread>> for every store of a thread of warp w, log.rd[w] the   *)
(* slots loaded by warp w.                                                 *)

EmptyLog == [wr |-> [w \in Warps |-> {}], rd |-> [w \in Warps |-> {}]]

\* The recursive operators below test NoSlots(m) on entry: it is false of every
\* memory with a slot, and testing it makes TLC evaluate m before it recurses,
\* which keeps the evaluation stack shallow.
NoSlots(m) == DOMAIN m = {}

\* lanes lo..hi store val[l] at idx[l] where act[l], the higher lane last
RECURSIVE StoreLanes(_, _, _, _, _, _)
StoreLanes(v, idx, val, act, lo, hi) ==
    IF NoSlots(v) THEN v
    ELSE IF lo = hi
    THEN (IF act[lo]
          THEN [v EXCEPT ![idx[lo] \div WARP_SIZE][idx[lo] % WARP_SIZE] = val[lo]]
          ELSE v)
    ELSE StoreLanes(StoreLanes(v, idx, val, act, lo, (lo + hi) \div 2),
                    idx, val, act, ((lo + hi) \div 2) + 1, hi)

Active(act) == {l \in Lanes : act[l]}

\* warp w stores val at idx where act
Store(m, w, idx, val, act) ==
    [v |-> StoreLanes(m.v, idx, val, act, 0, WARP_SIZE - 1),
     log |-> [m.log EXCEPT !.wr[w] =
                 @ \cup {<<idx[l], WARP_SIZE * w + l>> : l \in Active(act)}]]

\* warp w loads from idx where act
Load(m, w, idx, act) ==
    [m EXCEPT !.log.rd[w] = @ \cup {idx[l] : l \in Active(act)}]

\* the accesses of global memory since the launch, warp by warp: up and down
\* hold <<slot, thread>> of every read of blockTotals_global in the upsweep
\* and in the downsweep, wr holds <<slot, thread, turn of the loop>> of every
\* store to it, ts <<index, thread>> of every store to totalsScan_global
NoAccess == [w \in Warps |-> {}]
EmptyGlobalLog == [up |-> NoAccess, down |-> NoAccess, wr |-> NoAccess, ts |-> NoAccess]

\* lanes lo..hi store to global memory
RECURSIVE GStoreLanes(_, _, _, _, _, _)
GStoreLanes(g, idx, val, act, lo, hi) ==
    IF NoSlots(g) THEN g
    ELSE IF lo = hi
    THEN (IF act[lo] THEN [g EXCEPT ![idx[lo]] = val[lo]] ELSE g)
    ELSE GStoreLanes(GStoreLanes(g, idx, val, act, lo, (lo + hi) \div 2),
                     idx, val, act, ((lo + hi) \div 2) + 1, hi)

GStore(g, idx, val, act) == GStoreLanes(g, idx, val, act, 0, WARP_SIZE - 1)

----------------------------------------------------------------------------
(* Thread geometry *)

TidOf(w, l) == WARP_SIZE * w + l
LaneOf(tid) == BitAnd(WARP_SIZE - 1, tid)
\* faulty variant: the digit of a thread is taken to be its lane in the warp
LaneAsDigit(tid) == BitAnd(WARP_SIZE - 1, tid)

Lane2Of(tid) == BitAnd(NumDigits - 1, tid)
WarpOf(tid) == tid \div WARP_SIZE

(* SortHist: the interval of block counts of each column *)

ColOf(tid) == tid \div NumDigits
Quot == numTasks \div NumColumns
Rem == BitAnd(NumColumns - 1, numTasks)

ComputeTaskRange(block, taskQuot, taskRem, segSize, count) ==
    LET first == taskQuot * block + Min(block, taskRem)
        last == first + taskQuot + (IF block < taskRem THEN 1 ELSE 0)
    IN [x |-> segSize * first, y |-> Min(segSize * last, count)]

TaskRange(col) == ComputeTaskRange(col, Quot, Rem, 1, numTasks)

\* faulty variant: a thread steps by the number of columns
StrideOfColumns == NumColumns

StartOf(tid) == NumDigits * TaskRange(ColOf(tid)).x + Lane2Of(tid)
EndOf(tid) == NumDigits * TaskRange(ColOf(tid)).y
Stride == NumDigits

----------------------------------------------------------------------------
(* The code between two barriers, executed by one warp w in lockstep.      *)
(* st holds what the code can change: g (blockTotals_global),              *)
(* ts (totalsScan_global), sh and tot (counts_shared and totals_shared     *)
(* with their access records) and the per-thread registers.                *)

Tids(w) == [l \in Lanes |-> TidOf(w, l)]

\* SortHist, upsweep: laneCount += blockTotals_global[i]
RECURSIVE UpsweepLoop(_, _, _, _)
UpsweepLoop(g, i, end, acc) ==
    IF i < end
    THEN UpsweepLoop(g, i + Stride, end,
                     [sum |-> Add32(acc.sum, g[i]), rd |-> acc.rd \cup {i}])
    ELSE acc

\* per lane the laneCount and the slots read for it
UpsweepCounts(w, g) ==
    [l \in Lanes |-> UpsweepLoop(g, StartOf(TidOf(w, l)), EndOf(TidOf(w, l)),
                                 [sum |-> 0, rd |-> {}])]

UpsweepReads(w, up) == UNION {{<<i, TidOf(w, l)>> : i \in up[l].rd} : l \in Lanes}

(* Regime A, NumDigits < WARP_SIZE *)

\* inclusive scan over the repeated digits of one warp
RECURSIVE LaneScan(_, _, _)
LaneScan(w, i, r) ==
    IF i >= 5 - NumBits \/ NoSlots(r) THEN r
    ELSE LET offset == NumDigits * Pow2(i)
             tid == Tids(w)
             act == [l \in Lanes |-> LaneOf(tid[l]) >= offset]
             from == [l \in Lanes |-> tid[l] - offset]
             m1 == Load(r.m, w, from, act)
             x1 == [l \in Lanes |-> IF act[l] THEN Add32(r.x[l], At(r.m.v, from[l]))
                                    ELSE r.x[l]]
             m2 == Store(m1, w, tid, x1, AllLanes)
         IN LaneScan(w, i + 1, [x |-> x1, m |-> m2])

UpsweepLaneScan(w, st) ==
    LET tid == Tids(w)
        up == UpsweepCounts(w, st.g)
        cnt == [l \in Lanes |-> up[l].sum]
        m0 == Store(st.sh, w, tid, cnt, AllLanes)
        r == LaneScan(w, 0, [x |-> cnt, m |-> m0])
    IN [st EXCEPT !.laneCount[w] = cnt,
                  !.gl.up[w] = @ \cup UpsweepReads(w, up),
                  !.x[w] = r.x,
                  !.scanLaneExc[w] = [l \in Lanes |-> Sub32(r.x[l], cnt[l])],
                  !.sh = r.m]

\* faulty variant: the first occurrence of each digit is taken for the warp total
HoldsFirstOccurrence(lane) == lane < NumDigits

\* the lanes holding the last occurrence of each digit in the warp
HoldsWarpTotal(lane) == lane >= WARP_SIZE - NumDigits

\* slot of the total of digit lane2 in warp warp
WarpTotalIndex(lane2, warp) == (WARP_SIZE + 1) * lane2 + warp

WarpTotals(w, st) ==
    LET tid == Tids(w)
        act == [l \in Lanes |-> HoldsWarpTotal(LaneOf(tid[l]))]
        idx == [l \in Lanes |-> WarpTotalIndex(Lane2Of(tid[l]), WarpOf(tid[l]))]
    IN [st EXCEPT !.sh = Store(@, w, idx, st.x[w], act)]

\* warp warp scans the warp totals of digit warp
RECURSIVE WarpScan(_, _, _)
WarpScan(w, i, r) ==
    IF i >= LOG_WARP_SIZE \/ NoSlots(r) THEN r
    ELSE LET offset == Pow2(i)
             base == (WARP_SIZE + 1) * w
             act == [l \in Lanes |-> l >= offset]
             from == [l \in Lanes |-> base + l - offset]
             to == [l \in Lanes |-> base + l]
             m1 == Load(r.m, w, from, act)
             x1 == [l \in Lanes |-> IF act[l] THEN Add32(r.x[l], At(r.m.v, from[l]))
                                    ELSE r.x[l]]
             m2 == Store(m1, w, to, x1, AllLanes)
         IN WarpScan(w, i + 1, [x |-> x1, m |-> m2])

ScansDigit(warp) == warp < NumDigits

DigitScan(w, st) ==
    IF ~ScansDigit(w) THEN st
    ELSE LET base == (WARP_SIZE + 1) * w
             idx == [l \in Lanes |-> base + l]
             m0 == Load(st.sh, w, idx, AllLanes)
             count == [l \in Lanes |-> At(st.sh.v, idx[l])]
             r == WarpScan(w, 0, [x |-> count, m |-> m0])
             last == [l \in Lanes |-> WARP_SIZE - 1 = l]
             t1 == Store(st.tot, w, [l \in Lanes |-> w], r.x, last)
             m2 == Store(r.m, w, idx, [l \in Lanes |-> Sub32(r.x[l], count[l])],
                         AllLanes)
         IN [st EXCEPT !.x[w] = r.x, !.sh = m2, !.tot = t1]

\* exclusive scan of the digit totals by the first NumDigits threads
RECURSIVE TotalsLoop(_, _, _, _)
TotalsLoop(w, i, count, r) ==
    IF i >= NumBits \/ NoSlots(r) THEN r
    ELSE LET offset == Pow2(i)
             tid == Tids(w)
             on == [l \in Lanes |-> tid[l] < NumDigits]
             act == [l \in Lanes |-> on[l] /\ tid[l] >= offset]
             from == [l \in Lanes |-> tid[l] - offset]
             m1 == Load(r.m, w, from, act)
             x1 == [l \in Lanes |-> IF act[l] THEN Add32(r.x[l], At(r.m.v, from[l]))
                                    ELSE r.x[l]]
             x2 == [l \in Lanes |-> IF on[l] /\ i = NumBits - 1
                                    THEN Sub32(x1[l], count[l])
                                    ELSE x1[l]]
             m2 == Store(m1, w, tid, x2, on)
         IN TotalsLoop(w, i + 1, count, [x |-> x2, m |-> m2])

TotalsScan(w, st) ==
    IF ~(TidOf(w, 0) < NumDigits) THEN st
    ELSE LET tid == Tids(w)
             on == [l \in Lanes |-> tid[l] < NumDigits]
             m0 == Load(st.tot, w, tid, on)
             count == [l \in Lanes |-> IF on[l] THEN At(st.tot.v, tid[l]) ELSE st.x[w][l]]
             r == TotalsLoop(w, 0, count, [x |-> count, m |-> m0])
         IN [st EXCEPT !.x[w] = r.x, !.tot = r.m]

\* return totalExc + warpExc + laneExc
SumOffsets(totalExc, warpExc, lanePart) == Add32(Add32(totalExc, warpExc), lanePart)

OffsetsA(w, st) ==
    LET tid == Tids(w)
        ti == [l \in Lanes |-> Lane2Of(tid[l])]
        si == [l \in Lanes |-> WarpTotalIndex(Lane2Of(tid[l]), WarpOf(tid[l]))]
        ret == [l \in Lanes |-> SumOffsets(At(st.tot.v, ti[l]), At(st.sh.v, si[l]),
                                           st.scanLaneExc[w][l])]
    IN [st EXCEPT !.tot = Load(@, w, ti, AllLanes),
                  !.sh = Load(@, w, si, AllLanes),
                  !.scanResult[w] = ret]

(* Regime B, NumDigits >= WARP_SIZE *)

UpsweepStore(w, st) ==
    LET up == UpsweepCounts(w, st.g)
        cnt == [l \in Lanes |-> up[l].sum]
    IN [st EXCEPT !.laneCount[w] = cnt,
                  !.gl.up[w] = @ \cup UpsweepReads(w, up),
                  !.x[w] = cnt,
                  !.sh = Store(@, w, Tids(w), cnt, AllLanes)]

NumDuplicates == NumThreads \div NumDigits

\* faulty variant: the digit totals are kept without padding
UnpaddedIndex(i) == i

\* slot of digit total i, one slot of padding per WARP_SIZE totals
PaddedIndex(i) == i + i \div WARP_SIZE

Folds(tid) == tid < NumDigits

\* sequential scan of the duplicates of one digit by thread tid < NumDigits
RECURSIVE FoldLoop(_, _, _)
FoldLoop(w, i, r) ==
    IF i >= NumDuplicates \/ NoSlots(r) THEN r
    ELSE LET tid == Tids(w)
             on == [l \in Lanes |-> Folds(tid[l])]
             idx == [l \in Lanes |-> i * NumDigits + tid[l]]
             m1 == Load(r.m, w, idx, on)
             m2 == Store(m1, w, idx, r.x, on)
             x1 == [l \in Lanes |-> IF on[l] THEN Add32(r.x[l], At(r.m.v, idx[l]))
                                    ELSE r.x[l]]
         IN FoldLoop(w, i + 1, [x |-> x1, m |-> m2])

Fold(w, st) ==
    LET tid == Tids(w)
        on == [l \in Lanes |-> Folds(tid[l])]
    IN IF \A l \in Lanes : ~on[l] THEN st
       ELSE LET x0 == [l \in Lanes |-> IF on[l] THEN 0 ELSE st.x[w][l]]
                r == FoldLoop(w, 0, [x |-> x0, m |-> st.sh])
                to == [l \in Lanes |-> PaddedIndex(tid[l])]
            IN [st EXCEPT !.x[w] = r.x,
                          !.sh = r.m,
                          !.tot = Store(@, w, to, r.x, on)]

\* common.cu: in-place scan of shared[0 .. 2^NumBits) by the first warp
RECURSIVE IntraWarpParallelLoop(_, _, _, _, _)
IntraWarpParallelLoop(w, i, count, inclusive, r) ==
    IF i >= NumBits \/ NoSlots(r) THEN r
    ELSE LET offset == Pow2(i)
             tid == Tids(w)
             act == [l \in Lanes |-> tid[l] >= offset]
             from == [l \in Lanes |-> tid[l] - offset]
             m1 == Load(r.m, w, from, act)
             x1 == [l \in Lanes |-> IF act[l] THEN Add32(r.x[l], At(r.m.v, from[l]))
                                    ELSE r.x[l]]
             x2 == [l \in Lanes |-> IF i = NumBits - 1 /\ ~inclusive
                                    THEN Sub32(x1[l], count[l])
                                    ELSE x1[l]]
             m2 == Store(m1, w, tid, x2, AllLanes)
         IN IntraWarpParallelLoop(w, i + 1, count, inclusive, [x |-> x2, m |-> m2])

IntraWarpParallelScan(w, m, inclusive) ==
    LET tid == Tids(w)
        m0 == Load(m, w, tid, AllLanes)
        count == [l \in Lanes |-> At(m.v, tid[l])]
    IN IntraWarpParallelLoop(w, 0, count, inclusive, [x |-> count, m |-> m0]).m

\* sum of the first c of the n values packed in one lane
RECURSIVE PackedPart(_, _)
PackedPart(vals, c) == IF c = 0 THEN 0 ELSE Add32(PackedPart(vals, c - 1), vals[c])

\* sum of all values packed in the lanes below l
RECURSIVE PackedBelow(_, _, _)
PackedBelow(val, n, l) ==
    IF l = 0 THEN 0 ELSE Add32(PackedBelow(val, n, l - 1), PackedPart(val[l - 1], n))

\* common.cu: exclusive scan of the n values per lane over the 32 lanes
IntraWarpScanPacked(val, n) ==
    [l \in Lanes |-> LET below == PackedBelow(val, n, l)
                     IN [c \in 1..n |-> Add32(below, PackedPart(val[l], c - 1))]]

IntraWarpScan64(val) == IntraWarpScanPacked(val, 2)

IntraWarpScan128(val) == IntraWarpScanPacked(val, 4)

\* val.x = totals_shared[index] ..., scan, totals_shared[index] = val.x ...
RECURSIVE LoadPacked(_, _, _, _, _)
LoadPacked(m, w, index, n, j) ==
    IF j >= n \/ NoSlots(m) THEN m
    ELSE LoadPacked(Load(m, w, [l \in Lanes |-> index[l] + j], AllLanes),
                    w, index, n, j + 1)

RECURSIVE StorePacked(_, _, _, _, _, _)
StorePacked(m, w, index, val, n, j) ==
    IF j >= n \/ NoSlots(m) THEN m
    ELSE StorePacked(Store(m, w, [l \in Lanes |-> index[l] + j],
                           [l \in Lanes |-> val[l][j + 1]], AllLanes),
                     w, index, val, n, j + 1)

PackedScan(w, m, n) ==
    LET tid == Tids(w)
        index == [l \in Lanes |-> PaddedIndex(n * tid[l])]
        val == [l \in Lanes |-> [j \in 1..n |-> At(m.v, index[l] + j - 1)]]
        m1 == LoadPacked(m, w, index, n, 0)
        out == IF n = 2 THEN IntraWarpScan64(val) ELSE IntraWarpScan128(val)
    IN StorePacked(m1, w, index, out, n, 0)

ScansTotals(tid) == tid < WARP_SIZE

TotalsScanB(w, st) ==
    IF ~ScansTotals(TidOf(w, 0)) THEN st
    ELSE IF 5 = NumBits THEN [st EXCEPT !.tot = IntraWarpParallelScan(w, @, FALSE)]
    ELSE IF 6 = NumBits THEN [st EXCEPT !.tot = PackedScan(w, @, 2)]
    ELSE IF 7 = NumBits THEN [st EXCEPT !.tot = PackedScan(w, @, 4)]
    ELSE st

OffsetsB(w, st) ==
    LET tid == Tids(w)
        ti == [l \in Lanes |-> PaddedIndex(Lane2Of(tid[l]))]
        ret == [l \in Lanes |-> Add32(At(st.tot.v, ti[l]), At(st.sh.v, tid[l]))]
    IN [st EXCEPT !.tot = Load(@, w, ti, AllLanes),
                  !.sh = Load(@, w, tid, AllLanes),
                  !.scanResult[w] = ret]

(* SortHist after the scan *)

\* totalsScan_global[tid] = totals_shared[tid + tid / WARP_SIZE]
TotalsOutIndex(tid) == tid + tid \div WARP_SIZE

\* faulty variant: the totals are written without a look at the pointer
WritesTotalUnchecked(tid) == tid < NumDigits

\* if(totalsScan_global && (tid < NumDigits))
WritesTotal(tid) == hasTotals /\ tid < NumDigits

WriteTotals(w, st) ==
    LET tid == Tids(w)
        on == [l \in Lanes |-> WritesTotal(tid[l])]
        from == [l \in Lanes |-> TotalsOutIndex(tid[l])]
        val == [l \in Lanes |-> IF on[l] THEN At(st.tot.v, from[l]) ELSE 0]
    IN [st EXCEPT !.tot = Load(@, w, from, on),
                  !.ts = GStore(@, tid, val, on),
                  !.gl.ts[w] = @ \cup {<<tid[l], tid[l]>> : l \in Active(on)}]

\* blockTotals_global[i] = 4 * laneExc
Scaled(exc) == Mul4(exc)

\* laneExc += blockCount
Advance(exc, blockCount) == Add32(exc, blockCount)

RECURSIVE DownsweepLoop(_, _, _, _, _, _, _)
DownsweepLoop(w, g, i, end, exc, turn, log) ==
    LET act == [l \in Lanes |-> i[l] < end[l]]
    IN IF NoSlots(g) \/ NoSlots(exc) \/ NoSlots(log) \/ \A l \in Lanes : ~act[l]
       THEN [g |-> g, exc |-> exc, log |-> log]
       ELSE LET blockCount == [l \in Lanes |-> IF act[l] THEN g[i[l]] ELSE 0]
                g1 == GStore(g, i, [l \in Lanes |-> Scaled(exc[l])], act)
                exc1 == [l \in Lanes |-> IF act[l] THEN Advance(exc[l], blockCount[l])
                                         ELSE exc[l]]
                i1 == [l \in Lanes |-> IF act[l] THEN i[l] + Stride ELSE i[l]]
                log1 == [log EXCEPT
                           !.down[w] = @ \cup {<<i[l], TidOf(w, l)>> : l \in Active(act)},
                           !.wr[w] = @ \cup {<<i[l], TidOf(w, l), turn>> : l \in Active(act)}]
            IN DownsweepLoop(w, g1, i1, end, exc1, turn + 1, log1)

Downsweep(w, st) ==
    LET tid == Tids(w)
        st1 == WriteTotals(w, st)
        r == DownsweepLoop(w, st1.g, [l \in Lanes |-> StartOf(tid[l])],
                           [l \in Lanes |-> EndOf(tid[l])],
                           st1.scanResult[w], 0, st1.gl)
    IN [st1 EXCEPT !.g = r.g, !.laneExc[w] = r.exc, !.gl = r.log]

----------------------------------------------------------------------------
(* Scheduling: warps between barriers *)

\* a unit is a warp scheduled on its own, or the group of the other warps
Units == 0..FreeWarps
FirstWarp(u) == u
LastWarp(u) == IF u < FreeWarps THEN u ELSE NumWarps - 1

\* the barrier intervals of StridedMultiScan inside SortHist, numbered from 0
LastSegment == IF RegimeA THEN 4 ELSE 3

\* source line of the __syncthreads that ends interval k - 1
BarrierLine(k) ==
    IF RegimeA THEN (IF k = 1 THEN 35 ELSE IF k = 2 THEN 39 ELSE IF k = 3 THEN 63 ELSE 79)
    ELSE (IF k = 1 THEN 90 ELSE IF k = 2 THEN 108 ELSE 144)

Segment(k, w, st) ==
    IF RegimeA
    THEN CASE k = 0 -> UpsweepLaneScan(w, st)
           [] k = 1 -> WarpTotals(w, st)
           [] k = 2 -> DigitScan(w, st)
           [] k = 3 -> TotalsScan(w, st)
           [] k = 4 -> Downsweep(w, OffsetsA(w, st))
    ELSE CASE k = 0 -> UpsweepStore(w, st)
           [] k = 1 -> Fold(w, st)
           [] k = 2 -> TotalsScanB(w, st)
           [] k = 3 -> Downsweep(w, OffsetsB(w, st))

\* warps first..last run interval k one after the other
RECURSIVE RunWarps(_, _, _, _)
RunWarps(k, first, last, st) ==
    IF NoSlots(st) THEN st
    ELSE IF first = last THEN Segment(k, first, st)
    ELSE RunWarps(k, ((first + last) \div 2) + 1, last,
                  RunWarps(k, first, (first + last) \div 2, st))

State ==
    [g |-> blockTotals_global, ts |-> totalsScan_global,
     sh |-> [v |-> counts_shared, log |-> sharedLog],
     tot |-> [v |-> totals_shared, log |-> totalsLog],
     laneCount |-> laneCount, x |-> x, scanLaneExc |-> scanLaneExc,
     scanResult |-> scanResult, laneExc |-> laneExc, gl |-> globalLog]

\* the slots written, and the slots read or written, by warp w
SlotsWritten(log, w) == {p[1] : p \in log.wr[w]}
SlotsTouched(log, w) == SlotsWritten(log, w) \cup log.rd[w]

\* a slot written by one warp in one interval and read or written by another
\* warp in the next, or read in the one and written in the next
Conflicts(before, after) ==
    \E w1 \in Warps : \E w2 \in Warps \ {w1} :
        \/ SlotsWritten(before, w1) \cap SlotsTouched(after, w2) # {}
        \/ before.rd[w1] \cap SlotsWritten(after, w2) # {}

\* faulty variant: the barrier lets a warp go only while no warp has gone on
ReadyWhileAllWait(u, k) ==
    /\ k <= LastSegment
    /\ pc[FirstWarp(u)] = k
    /\ \A w \in Warps : pc[w] = k

\* __syncthreads: a warp enters interval k once every warp has finished k - 1
Ready(u, k) ==
    /\ k <= LastSegment
    /\ pc[FirstWarp(u)] = k
    /\ \A w \in Warps : pc[w] >= k

Step(u, k) ==
    /\ Ready(u, k)
    /\ \E st \in {RunWarps(k, FirstWarp(u), LastWarp(u), State)} :
       \E pc1 \in {[w \in Warps |-> IF w >= FirstWarp(u) /\ w <= LastWarp(u)
                                    THEN k + 1 ELSE pc[w]]} :
          /\ pc' = pc1
          /\ blockTotals_global' = st.g
          /\ totalsScan_global' = st.ts
          /\ counts_shared' = st.sh.v
          /\ totals_shared' = st.tot.v
          /\ laneCount' = st.laneCount
          /\ x' = st.x
          /\ scanLaneExc' = st.scanLaneExc
          /\ scanResult' = st.scanResult
          /\ laneExc' = st.laneExc
          /\ globalLog' = st.gl
          /\ IF \A w \in Warps : pc1[w] = k + 1
             THEN /\ prevSharedLog' = st.sh.log
                  /\ prevTotalsLog' = st.tot.log
                  /\ sharedLog' = EmptyLog
                  /\ totalsLog' = EmptyLog
                  /\ conflict' = IF k >= 1 /\ (\/ Conflicts(prevSharedLog, st.sh.log)
                                               \/ Conflicts(prevTotalsLog, st.tot.log))
                                 THEN conflict \cup {BarrierLine(k)}
                                 ELSE conflict
             ELSE /\ sharedLog' = st.sh.log
                  /\ totalsLog' = st.tot.log
                  /\ UNCHANGED <<prevSharedLog, prevTotalsLog, conflict>>
    /\ UNCHANGED <<NumBits, numTasks, hasTotals, counts0, policy>>

(* One action per barrier interval of each regime *)

UpsweepLaneScanA(u) == RegimeA /\ Step(u, 0)
WarpTotalsA(u) == RegimeA /\ Step(u, 1)
DigitScanA(u) == RegimeA /\ Step(u, 2)
TotalsScanA(u) == RegimeA /\ Step(u, 3)
DownsweepA(u) == RegimeA /\ Step(u, 4)
UpsweepStoreB(u) == ~RegimeA /\ Step(u, 0)
FoldB(u) == ~RegimeA /\ Step(u, 1)
TotalsScanStepB(u) == ~RegimeA /\ Step(u, 2)
DownsweepB(u) == ~RegimeA /\ Step(u, 3)

\* no reduction policy is involved in the histogram scan
NoPolicy == [stage |-> "none"]

----------------------------------------------------------------------------
(* Launch *)

TaskCounts(nb) == {0, SmallTasks, (NumThreads \div Pow2(nb)) + ExtraTasks}

Pattern(p, i) == (p * i + i \div 7) % (MaxCount + 1)

\* counts of digit 0 and of digit 1 in four blocks
Row0 == <<3, 1, 4, 1>>
Row1 == <<1, 5, 9, 2>>
Scenario == [i \in 0..7 |-> IF i % 2 = 0 THEN Row0[(i \div 2) + 1] ELSE Row1[(i \div 2) + 1]]

\* the n counts of a launch, followed by memory that is not the launch's
WithSpare(counts, n) ==
    [i \in 0..(n + SpareSlots - 1) |-> IF i < n THEN counts[i] ELSE Untouched]

Launch(nb, nt, counts, ht) ==
    /\ NumBits = nb
    /\ numTasks = nt
    /\ hasTotals = ht
    /\ counts0 = counts
    /\ blockTotals_global = counts
    /\ totalsScan_global = [d \in 0..(Pow2(nb) + SpareSlots - 1) |-> Untouched]
    /\ counts_shared = Filled(2 * NumThreads, Untouched)
    /\ totals_shared = Filled(NumThreads, Untouched)
    /\ laneCount = Filled(NumThreads, 0)
    /\ x = Filled(NumThreads, 0)
    /\ scanLaneExc = Filled(NumThreads, 0)
    /\ scanResult = Filled(NumThreads, 0)
    /\ laneExc = Filled(NumThreads, 0)
    /\ pc = [w \in Warps |-> 0]
    /\ sharedLog = EmptyLog
    /\ totalsLog = EmptyLog
    /\ prevSharedLog = EmptyLog
    /\ prevTotalsLog = EmptyLog
    /\ conflict = {}
    /\ globalLog = EmptyGlobalLog
    /\ policy = NoPolicy

Init ==
    \/ \E nb \in InstantiatedNumBits : \E nt \in TaskCounts(nb) :
       \E p \in 1..MaxPattern : \E ht \in BOOLEAN :
           Launch(nb, nt, WithSpare([i \in 0..(Pow2(nb) * nt - 1) |-> Pattern(p, i)],
                                    Pow2(nb) * nt), ht)
    \/ \E ht \in BOOLEAN : Launch(1, 4, WithSpare(Scenario, 8), ht)

Next ==
    \E u \in Units :
        \/ UpsweepLaneScanA(u)
        \/ WarpTotalsA(u)
        \/ DigitScanA(u)
        \/ TotalsScanA(u)
        \/ DownsweepA(u)
        \/ UpsweepStoreB(u)
        \/ FoldB(u)
        \/ TotalsScanStepB(u)
        \/ DownsweepB(u)

Spec == Init /\ [][Next]_vars

Done == \A w \in Warps : pc[w] = LastSegment + 1

----------------------------------------------------------------------------
(* What SortHist leaves in global memory *)

\* slot of (block b, digit d) in blockTotals_global
SlotOf(b, d) == NumDigits * b + d

Blocks == 0..(numTasks - 1)
Digits == 0..(NumDigits - 1)

\* the sum of f[lo] .. f[hi]
RECURSIVE SumOver(_, _, _)
SumOver(f, lo, hi) ==
    IF lo > hi THEN 0
    ELSE IF lo = hi THEN f[lo]
    ELSE SumOver(f, lo, (lo + hi) \div 2) + SumOver(f, ((lo + hi) \div 2) + 1, hi)

\* slot of the r-th pair (block, digit), all blocks of digit 0 first
RankSlot(r) == SlotOf(r % numTasks, r \div numTasks)

\* the unscaled offset written at a slot
Offset(slot) == blockTotals_global[slot] \div 4

\* the total of digit d over all blocks, before the scan
DigitTotal(d) == SumOver([b \in Blocks |-> counts0[SlotOf(b, d)]], 0, numTasks - 1)

\* C1: after SortHist the written value of (block b, digit d) divided by 4 is
\* the start of an interval of length counts[b, d]; taken digit by digit and
\* block by block within a digit, the first interval starts at 0, each next
\* one starts where the one before ends, and the last ends at the sum of all
\* counts.
C1_Partition ==
    Done =>
        LET n == NumDigits * numTasks
        IN /\ \A r \in 0..(n - 1) :
                 Offset(RankSlot(r)) =
                     IF r = 0 THEN 0
                     ELSE Offset(RankSlot(r - 1)) + counts0[RankSlot(r - 1)]
           /\ n > 0 => Offset(RankSlot(n - 1)) + counts0[RankSlot(n - 1)]
                           = SumOver(counts0, 0, n - 1)

\* a finished scan of 128 digits in which threads own more than one block and
\* the last interval starts above 0
C1_Witness ==
    /\ Done
    /\ NumBits = 7
    /\ numTasks > NumColumns
    /\ Offset(RankSlot(NumDigits * numTasks - 1)) > 0

\* C2: after SortHist the offset of block 0 of digit 0 is 0 and, for every
\* digit d and blocks i, i + 1, the offset of block i + 1 is the offset of
\* block i plus the count block i had for d at launch.
C2_Exclusive ==
    Done =>
        /\ numTasks > 0 => Offset(SlotOf(0, 0)) = 0
        /\ \A d \in Digits : \A i \in Blocks :
              i + 1 < numTasks =>
                  Offset(SlotOf(i + 1, d)) = Offset(SlotOf(i, d)) + counts0[SlotOf(i, d)]

\* the thread that owns (block b, digit d): the column whose range holds b
OwnerOf(b, d) ==
    NumDigits * (CHOOSE c \in 0..(NumColumns - 1) :
                     TaskRange(c).x <= b /\ b < TaskRange(c).y) + d

\* a finished scan with two consecutive blocks of non-zero count owned by
\* threads of different columns and different warps
C2_Witness ==
    /\ Done
    /\ \E i \in Blocks :
          /\ i + 1 < numTasks
          /\ counts0[SlotOf(i, 0)] > 0
          /\ ColOf(OwnerOf(i, 0)) # ColOf(OwnerOf(i + 1, 0))
          /\ WarpOf(OwnerOf(i, 0)) # WarpOf(OwnerOf(i + 1, 0))

\* the blocks of thread tid
BlocksOf(tid) == TaskRange(ColOf(tid)).x..(TaskRange(ColOf(tid)).y - 1)

\* the counts thread tid met before block b
Passed(tid, b) ==
    SumOver([i \in BlocksOf(tid) |-> counts0[SlotOf(i, Lane2Of(tid))]],
            TaskRange(ColOf(tid)).x, b - 1)

\* C3: every value SortHist has written into blockTotals_global is 4 times
\* the thread's exclusive prefix at that slot, which is the thread's scan
\* result plus the unscaled launch counts of the blocks it went through
\* before, and the thread ends with its running offset advanced by the
\* unscaled counts of all its blocks.
C3_Scaling ==
    Done =>
        \A tid \in Threads :
            /\ \A b \in BlocksOf(tid) :
                  blockTotals_global[SlotOf(b, Lane2Of(tid))]
                      = 4 * (At(scanResult, tid) + Passed(tid, b))
            /\ At(laneExc, tid)
                  = At(scanResult, tid) + Passed(tid, TaskRange(ColOf(tid)).y)

\* a finished scan in which a thread with a non-zero scan result went through
\* two blocks, the first of them not empty
C3_Witness ==
    /\ Done
    /\ \E tid \in {1, NumThreads - 1} :
          /\ TaskRange(ColOf(tid)).y - TaskRange(ColOf(tid)).x >= 2
          /\ At(scanResult, tid) > 0
          /\ counts0[SlotOf(TaskRange(ColOf(tid)).x, Lane2Of(tid))] > 0

\* C4 as stated: with a totals pointer, totalsScan_global[d] ends as the
\* total of digit d over all blocks.
C4_GrandTotals ==
    (Done /\ hasTotals) => \A d \in Digits : totalsScan_global[d] = DigitTotal(d)

\* C4: with a totals pointer, totalsScan_global[d] ends as the sum of the
\* totals of the digits below d (the exclusive scan of the digit totals);
\* without one the array is left alone.
C4_ScannedTotals ==
    Done =>
        \A d \in Digits :
            totalsScan_global[d] =
                IF ~hasTotals THEN Untouched
                ELSE IF d = 0 THEN 0
                ELSE totalsScan_global[d - 1] + DigitTotal(d - 1)

\* a finished scan with a totals pointer, 64 digits and a non-zero total of
\* digit 0 and of digit 40
C4_Witness ==
    /\ Done
    /\ hasTotals
    /\ NumBits = 6
    /\ DigitTotal(0) > 0
    /\ DigitTotal(40) > 0

InScenario == NumBits = 1 /\ numTasks = 4 /\ \A i \in DOMAIN Scenario : counts0[i] = Scenario[i]

\* the values at the slots of digit d, block by block
Written(d) == [b \in 1..numTasks |-> blockTotals_global[SlotOf(b - 1, d)]]

\* C5 as stated: in the scenario SortHist writes 0, 12, 16, 32 for digit 0
\* and 0, 4, 24, 56 for digit 1.
C5_ScenarioAsStated ==
    (Done /\ InScenario) =>
        /\ Written(0) = <<0, 12, 16, 32>>
        /\ Written(1) = <<0, 4, 24, 56>>

\* C5: in the scenario SortHist writes 0, 12, 16, 32 for digit 0 and
\* 36, 40, 60, 96 for digit 1, whose offsets start after the 9 items of digit 0.
C5_Scenario ==
    (Done /\ InScenario) =>
        /\ Written(0) = <<0, 12, 16, 32>>
        /\ Written(1) = <<36, 40, 60, 96>>

C5_Witness == Done /\ InScenario /\ Written(1)[4] = 96

----------------------------------------------------------------------------
(* What StridedMultiScan returns *)

\* the r-th thread in the order of the scan: digit by digit, column by column
ScanOrder(r) == NumDigits * (r % NumColumns) + r \div NumColumns

\* C6: in both regimes the value StridedMultiScan returns to thread tid is
\* the sequential exclusive scan of the inputs in the order digit by digit
\* and column by column: 0 for the first thread of that order, and for every
\* other thread the value of the thread before it plus that thread's input.
C6_ReferenceScan ==
    Done =>
        \A r \in Threads :
            At(scanResult, ScanOrder(r)) =
                IF r = 0 THEN 0
                ELSE At(scanResult, ScanOrder(r - 1)) + At(laneCount, ScanOrder(r - 1))

\* a finished scan of 64 digits in which the last column holds counts and the
\* last thread of the order was returned more than its own column's share
C6_Witness ==
    /\ Done
    /\ NumBits = 6
    /\ At(laneCount, ScanOrder(NumThreads - 2)) > 0
    /\ At(scanResult, ScanOrder(NumThreads - 1)) > At(laneCount, ScanOrder(NumThreads - 2))

\* number of tasks of column c
RangeLength(c) == TaskRange(c).y - TaskRange(c).x

\* C7: the task ranges of the NumColumns columns start at 0, each next range
\* starts where the one before ends, the last ends at numTasks, the lengths
\* sum to numTasks, and each length is quot or quot + 1, the first rem
\* columns having quot + 1.
C7_BalancedSplit ==
    /\ TaskRange(0).x = 0
    /\ \A c \in 0..(NumColumns - 2) : TaskRange(c + 1).x = TaskRange(c).y
    /\ TaskRange(NumColumns - 1).y = numTasks
    /\ SumOver([c \in 0..(NumColumns - 1) |-> RangeLength(c)], 0, NumColumns - 1)
          = numTasks
    /\ Rem < NumColumns
    /\ \A c \in 0..(NumColumns - 1) :
          RangeLength(c) = Quot + (IF c < Rem THEN 1 ELSE 0)

\* the upsweep has used a split of more tasks than columns, with one column of
\* two tasks followed by columns of one task
C7_Witness ==
    /\ pc[0] >= 1
    /\ numTasks > NumColumns
    /\ Rem = 1
    /\ RangeLength(0) = 2
    /\ RangeLength(1) = 1
    /\ At(laneCount, 1) > 0

----------------------------------------------------------------------------
(* Shared memory between barriers *)

\* all <<slot, thread>> stores of an interval
Stores(log) == UNION {log.wr[w] : w \in Warps}

\* no slot was stored to by two threads
SingleWriter(log) ==
    Cardinality({p[1] : p \in Stores(log)}) = Cardinality(Stores(log))

AllBarriers == {BarrierLine(k) : k \in 1..LastSegment}

\* the barriers every warp has gone through and left the next interval
Crossed == {BarrierLine(k) : k \in {j \in 1..LastSegment : \A w \in Warps : pc[w] > j}}

\* C9 as stated: every barrier of StridedMultiScan separates accesses of two
\* different warps to one slot, at least one of them a write.
C9_EveryBarrier == Crossed \subseteq conflict

\* C9: every barrier of StridedMultiScan separates accesses of two different
\* warps to one slot, at least one of them a write, except the barrier of line
\* 108 when NumBits is 5: there the intervals on both sides of it are run by
\* the first warp alone.
C9_Mandatory ==
    \A b \in Crossed : b \in conflict <=> ~(NumBits = 5 /\ b = 108)

\* a finished scan of 32 digits in which the barriers of lines 90 and 144 had
\* conflicting accesses around them and the barrier of line 108 had none
C9_Witness ==
    /\ Done
    /\ NumBits = 5
    /\ Crossed = AllBarriers
    /\ conflict = {90, 144}

----------------------------------------------------------------------------
(* b40c reduction policy: template Policy<...> composes three kernel       *)
(* policies from a flat list of tunables.  ProblemType and CUDA_ARCH are   *)
(* handed unchanged to all three and are left out.                         *)

Logs == 0..MaxLog
Modifiers == {"NONE", "CG"}

Tunables ==
    [READ_MODIFIER : Modifiers,
     WRITE_MODIFIER : {"NONE"},
     WORK_STEALING : BOOLEAN,
     UPSWEEP_MAX_CTA_OCCUPANCY : 1..MaxOccupancy,
     UPSWEEP_LOG_THREADS : Logs,
     UPSWEEP_LOG_LOAD_VEC_SIZE : Logs,
     UPSWEEP_LOG_LOADS_PER_TILE : Logs,
     UPSWEEP_LOG_SCHEDULE_GRANULARITY : Logs,
     SPINE_LOG_THREADS : Logs,
     SPINE_LOG_LOAD_VEC_SIZE : Logs,
     SPINE_LOG_LOADS_PER_TILE : Logs]

\* the template arguments of one KernelPolicy<...>
KernelPolicy(align, occupancy, threads, vec, loads, rd, wr, stealing, granularity) ==
    [CHECK_ALIGNMENT |-> align,
     MAX_CTA_OCCUPANCY |-> occupancy,
     LOG_THREADS |-> threads,
     LOG_LOAD_VEC_SIZE |-> vec,
     LOG_LOADS_PER_TILE |-> loads,
     READ_MODIFIER |-> rd,
     WRITE_MODIFIER |-> wr,
     WORK_STEALING |-> stealing,
     LOG_SCHEDULE_GRANULARITY |-> granularity]

\* faulty variant: the spine policy is handed the requested work-stealing flag
SpineStealing(t) ==
    KernelPolicy(FALSE, 1, t.SPINE_LOG_THREADS, t.SPINE_LOG_LOAD_VEC_SIZE,
                 t.SPINE_LOG_LOADS_PER_TILE, t.READ_MODIFIER, t.WRITE_MODIFIER,
                 t.WORK_STEALING,
                 t.SPINE_LOG_LOADS_PER_TILE + t.SPINE_LOG_LOAD_VEC_SIZE
                     + t.SPINE_LOG_THREADS)

Upsweep(t) ==
    KernelPolicy(TRUE, t.UPSWEEP_MAX_CTA_OCCUPANCY, t.UPSWEEP_LOG_THREADS,
                 t.UPSWEEP_LOG_LOAD_VEC_SIZE, t.UPSWEEP_LOG_LOADS_PER_TILE,
                 t.READ_MODIFIER, t.WRITE_MODIFIER, t.WORK_STEALING,
                 t.UPSWEEP_LOG_SCHEDULE_GRANULARITY)

Spine(t) ==
    KernelPolicy(FALSE, 1, t.SPINE_LOG_THREADS, t.SPINE_LOG_LOAD_VEC_SIZE,
                 t.SPINE_LOG_LOADS_PER_TILE, t.READ_MODIFIER, t.WRITE_MODIFIER,
                 FALSE,
                 t.SPINE_LOG_LOADS_PER_TILE + t.SPINE_LOG_LOAD_VEC_SIZE
                     + t.SPINE_LOG_THREADS)

Single(t) ==
    KernelPolicy(TRUE, 1, t.SPINE_LOG_THREADS, t.SPINE_LOG_LOAD_VEC_SIZE,
                 t.SPINE_LOG_LOADS_PER_TILE, t.READ_MODIFIER, t.WRITE_MODIFIER,
                 FALSE,
                 t.SPINE_LOG_LOADS_PER_TILE + t.SPINE_LOG_LOAD_VEC_SIZE
                     + t.SPINE_LOG_THREADS)

\* faulty variant: only the upsweep policy decides
PolicyValidUpsweep(upsweepValid, spineValid, singleValid) == upsweepValid

\* enum VALID of the composed policy, from the VALID of the kernel policies
PolicyValid(upsweepValid, spineValid, singleValid) == upsweepValid /\ spineValid

\* the kernel variables play no part in the policy
NoKernel ==
    /\ NumBits = 1
    /\ numTasks = 0
    /\ hasTotals = FALSE
    /\ counts0 = <<>>
    /\ blockTotals_global = <<>>
    /\ totalsScan_global = <<>>
    /\ counts_shared = <<>>
    /\ totals_shared = <<>>
    /\ laneCount = <<>>
    /\ x = <<>>
    /\ scanLaneExc = <<>>
    /\ scanResult = <<>>
    /\ laneExc = <<>>
    /\ pc = <<>>
    /\ sharedLog = EmptyLog
    /\ totalsLog = EmptyLog
    /\ prevSharedLog = EmptyLog
    /\ prevTotalsLog = EmptyLog
    /\ conflict = {}
    /\ globalLog = EmptyGlobalLog

kernelVars == <<NumBits, numTasks, hasTotals, counts0, blockTotals_global,
                totalsScan_global, counts_shared, totals_shared, laneCount, x,
                scanLaneExc, scanResult, laneExc, pc, sharedLog, totalsLog,
                prevSharedLog, prevTotalsLog, conflict, globalLog>>

\* a list of tunables has been chosen, the template is not instantiated yet
PolicyInit ==
    /\ NoKernel
    /\ \E t \in Tunables : policy = [stage |-> "tunables", tunables |-> t]

\* instantiation of Policy<...>; whether a kernel policy is VALID is decided
\* by KernelPolicy, outside this file
Compose ==
    /\ policy.stage = "tunables"
    /\ \E upsweepValid \in BOOLEAN, spineValid \in BOOLEAN, singleValid \in BOOLEAN :
          policy' = [stage |-> "composed",
                     tunables |-> policy.tunables,
                     Upsweep |-> Upsweep(policy.tunables),
                     Spine |-> Spine(policy.tunables),
                     Single |-> Single(policy.tunables),
                     valid |-> [Upsweep |-> upsweepValid, Spine |-> spineValid,
                                Single |-> singleValid],
                     VALID |-> PolicyValid(upsweepValid, spineValid, singleValid),
                     entries |-> {}]
    /\ UNCHANGED kernelVars

\* the entry point a kernel getter hands out
Entry(kernel, kernelPolicy) == [kernel |-> kernel, policy |-> kernelPolicy]

UpsweepKernel ==
    /\ policy.stage = "composed"
    /\ policy' = [policy EXCEPT !.entries = @ \cup {Entry("upsweep::Kernel", "Upsweep")}]
    /\ UNCHANGED kernelVars

SpineKernel ==
    /\ policy.stage = "composed"
    /\ policy' = [policy EXCEPT !.entries = @ \cup {Entry("spine::Kernel", "Spine")}]
    /\ UNCHANGED kernelVars

SingleKernel ==
    /\ policy.stage = "composed"
    /\ policy' = [policy EXCEPT !.entries = @ \cup {Entry("spine::Kernel", "Single")}]
    /\ UNCHANGED kernelVars

PolicyNext == Compose \/ UpsweepKernel \/ SpineKernel \/ SingleKernel

PolicySpec == PolicyInit /\ [][PolicyNext]_vars

\* C10: in every composed policy the Spine and the Single kernel policy have
\* the log scheduling granularity SPINE_LOG_LOADS_PER_TILE +
\* SPINE_LOG_LOAD_VEC_SIZE + SPINE_LOG_THREADS, so that the granularity is
\* loads per tile times load vector size times threads, a maximum CTA
\* occupancy of 1 and no work stealing whatever flag was requested; the
\* Upsweep kernel policy has the requested WORK_STEALING flag and
\* UPSWEEP_LOG_SCHEDULE_GRANULARITY.
C10_Composition ==
    policy.stage = "composed" =>
        LET t == policy.tunables
        IN /\ \A k \in {policy.Spine, policy.Single} :
                 /\ k.LOG_SCHEDULE_GRANULARITY
                       = t.SPINE_LOG_LOADS_PER_TILE + t.SPINE_LOG_LOAD_VEC_SIZE
                             + t.SPINE_LOG_THREADS
                 /\ Pow2(k.LOG_SCHEDULE_GRANULARITY)
                       = Pow2(k.LOG_LOADS_PER_TILE) * Pow2(k.LOG_LOAD_VEC_SIZE)
                             * Pow2(k.LOG_THREADS)
                 /\ k.MAX_CTA_OCCUPANCY = 1
                 /\ k.WORK_STEALING = FALSE
           /\ policy.Upsweep.WORK_STEALING = t.WORK_STEALING
           /\ policy.Upsweep.LOG_SCHEDULE_GRANULARITY
                 = t.UPSWEEP_LOG_SCHEDULE_GRANULARITY

\* a policy composed with work stealing requested, an upsweep occupancy above
\* 1 and an upsweep granularity that differs from the spine tile size
C10_Witness ==
    /\ policy.stage = "composed"
    /\ policy.tunables.WORK_STEALING
    /\ policy.tunables.UPSWEEP_MAX_CTA_OCCUPANCY > 1
    /\ policy.Spine.LOG_SCHEDULE_GRANULARITY > 1
    /\ policy.tunables.UPSWEEP_LOG_SCHEDULE_GRANULARITY
          # policy.Spine.LOG_SCHEDULE_GRANULARITY

\* C11 as stated: VALID of a composed policy is true exactly when all three
\* kernel policies, Upsweep, Spine and Single, are valid.
C11_ValidOfAllThree ==
    policy.stage = "composed" =>
        (policy.VALID <=>
            policy.valid.Upsweep /\ policy.valid.Spine /\ policy.valid.Single)

\* C11: VALID of a composed policy is true exactly when the Upsweep and the
\* Spine kernel policy are valid; the Single kernel policy is not consulted.
C11_ValidOfUpsweepAndSpine ==
    policy.stage = "composed" =>
        (policy.VALID <=> policy.valid.Upsweep /\ policy.valid.Spine)

\* a composed policy that is VALID although its Single kernel policy is not
C11_Witness ==
    /\ policy.stage = "composed"
    /\ policy.VALID
    /\ ~policy.valid.Single

\* C12 as stated: a composed policy with VALID false has handed out no
\* kernel entry point.
C12_NoEntryWhenInvalid ==
    (policy.stage = "composed" /\ ~policy.VALID) => policy.entries = {}

----------------------------------------------------------------------------
(* Layout of blockTotals_global *)

\* index of (block b, digit d) if all blocks of digit 0 came first
DigitMajorSlot(b, d) == d * numTasks + b

\* where the items of digit d start: the scanned digit total the downsweep adds
DigitStart(d) == At(totals_shared, PaddedIndex(d))

\* C13 as stated: the counts and offsets of digit d are the numTasks entries
\* from index d * numTasks on: the first of them ends as 4 times the start of
\* digit d, and the last offset plus the last count is the start of digit
\* d + 1 (the sum of all counts for the last digit).
C13_DigitMajorLayout ==
    (Done /\ numTasks > 0) =>
        \A d \in Digits :
            /\ blockTotals_global[DigitMajorSlot(0, d)] = 4 * DigitStart(d)
            /\ Offset(DigitMajorSlot(numTasks - 1, d))
                   + counts0[DigitMajorSlot(numTasks - 1, d)]
                 = IF d < NumDigits - 1 THEN DigitStart(d + 1)
                   ELSE SumOver(counts0, 0, NumDigits * numTasks - 1)

\* C13: the counts and offsets of digit d are the entries at the indexes
\* NumDigits * b + d, one per block b, interleaved with those of the other
\* digits: the entry of block 0 ends as 4 times the start of digit d, and the
\* offset plus the count of the last block is the start of digit d + 1 (the
\* sum of all counts for the last digit).
C13_InterleavedLayout ==
    (Done /\ numTasks > 0) =>
        \A d \in Digits :
            /\ blockTotals_global[SlotOf(0, d)] = 4 * DigitStart(d)
            /\ Offset(SlotOf(numTasks - 1, d)) + counts0[SlotOf(numTasks - 1, d)]
                 = IF d < NumDigits - 1 THEN DigitStart(d + 1)
                   ELSE SumOver(counts0, 0, NumDigits * numTasks - 1)

\* a finished scan of three blocks and four digits in which some digit above 0
\* starts above 0 and has items in its first and in its last block
C13_Witness ==
    /\ Done
    /\ NumBits = 2
    /\ numTasks = SmallTasks
    /\ \E d \in Digits \ {0} :
          /\ DigitStart(d) > 0
          /\ counts0[SlotOf(0, d)] > 0
          /\ counts0[SlotOf(numTasks - 1, d)] > 0
          /\ blockTotals_global[SlotOf(0, d)] = 4 * DigitStart(d)

----------------------------------------------------------------------------
(* Termination *)

\* a step of unit u as the program counters show it: its warps leave the
\* interval they were ready for. UnitReady(u) is the guard of every step of u,
\* and a step of Next moves the counters of u exactly when it is a step of u.
UnitReady(u) == \E k \in 0..LastSegment : Ready(u, k)

Proceed(u) ==
    /\ UnitReady(u)
    /\ pc' = [w \in Warps |-> IF w >= FirstWarp(u) /\ w <= LastWarp(u)
                              THEN pc[w] + 1 ELSE pc[w]]

\* the warp scheduler does not leave a warp that can run waiting for ever
FairSpec == Spec /\ \A u \in Units : WF_pc(Proceed(u))

\* number of __syncthreads a thread of warp w has passed
BarriersPassed(w) == IF pc[w] > LastSegment THEN LastSegment ELSE pc[w]

\* C14: under fair scheduling of the warps SortHist comes to its end in every
\* thread, for every numTasks, 0 and fewer tasks than columns included, every
\* warp having then passed the four barriers of regime A or the three of
\* regime B.
C14_Completes ==
    <>(/\ Done
       /\ \A w \in Warps : BarriersPassed(w) = IF RegimeA THEN 4 ELSE 3)

\* SortHist has come to its end in a launch without tasks in regime B, the
\* warps that scan no totals having passed the three barriers all the same
C14_Witness ==
    /\ Done
    /\ numTasks = 0
    /\ NumBits = 6
    /\ BarriersPassed(NumWarps - 1) = 3

----------------------------------------------------------------------------
(* Phase invariants of StridedMultiScan *)

\* every warp waits at, or has just left, the k-th barrier and none has gone on
AtBarrier(k) == \A w \in Warps : pc[w] = k

\* the sum of the counts that the lanes of warp w hold for digit d
WarpLocalTotal(w, d) ==
    SumOver([l \in Lanes |-> IF l % NumDigits = d THEN laneCount[w][l] ELSE 0],
            0, WARP_SIZE - 1)

\* the sum of the counts of the lanes below lane l of warp w with the digit of l
LaneLocalExc(w, l) ==
    SumOver([k \in Lanes |-> IF k < l /\ k % NumDigits = l % NumDigits
                             THEN laneCount[w][k] ELSE 0], 0, WARP_SIZE - 1)

\* the sum of the counts of digit d over the warps below w
WarpsBelow(d, w) == SumOver([v \in Warps |-> WarpLocalTotal(v, d)], 0, w - 1)

\* the sum of the counts of the digits below d over the block
DigitsBelow(d) == SumOver([e \in Digits |-> WarpsBelow(e, NumWarps)], 0, d - 1)

\* C15: in regime A, at the barrier of line 63 scratch[(32+1)*d + w] is the
\* sum of digit d's warp totals over the warps below w and totals[d] is the
\* total of digit d; at the barrier of line 79 totals[d] is the sum of the
\* totals of the digits below d; and the value returned to a thread is
\* totals[digit] + scratch[(32+1)*digit + warp] + the sum of the counts of
\* the lanes of its warp below it with its digit.
C15_PhasesA ==
    RegimeA =>
        /\ AtBarrier(3) =>
              \A d \in Digits :
                 /\ At(totals_shared, d) = WarpsBelow(d, NumWarps)
                 /\ \A w \in Warps :
                       At(counts_shared, (WARP_SIZE + 1) * d + w) = WarpsBelow(d, w)
        /\ AtBarrier(4) =>
              \A d \in Digits : At(totals_shared, d) = DigitsBelow(d)
        /\ Done =>
              \A w \in Warps : \A l \in Lanes :
                 scanResult[w][l] =
                     At(totals_shared, l % NumDigits)
                     + At(counts_shared, (WARP_SIZE + 1) * (l % NumDigits) + w)
                     + LaneLocalExc(w, l)

\* regime A at the barrier of line 63 with a digit that has counts in warp 1
\* and in the warps below it
C15_AtBarrier ==
    /\ RegimeA
    /\ AtBarrier(3)
    /\ \E d \in Digits : At(counts_shared, (WARP_SIZE + 1) * d + 1) > 0
                         /\ WarpLocalTotal(1, d) > 0

\* regime A at the end with a thread whose three summands are all positive
C15_Witness ==
    /\ RegimeA
    /\ Done
    /\ \E w \in Warps : \E l \in Lanes :
          /\ At(totals_shared, l % NumDigits) > 0
          /\ At(counts_shared, (WARP_SIZE + 1) * (l % NumDigits) + w) > 0
          /\ LaneLocalExc(w, l) > 0

\* the sum of the counts that duplicates 0 .. i - 1 of digit d hold
DuplicatesBelow(d, i) ==
    SumOver([j \in 0..(NumDuplicates - 1) |-> At(laneCount, j * NumDigits + d)],
            0, i - 1)

\* the sum of the counts of the digits below d over the block, regime B
TotalsBelow(d) ==
    SumOver([e \in Digits |-> DuplicatesBelow(e, NumDuplicates)], 0, d - 1)

\* C16: in regime B, at the barrier of line 108 scratch[i*NumDigits + d] is
\* the sum of the inputs of duplicates 0 .. i-1 of digit d and the total of
\* digit d is at index d + d/32 of totals; at the barrier of line 144 that
\* slot holds the sum of the totals of the digits below d; and the value
\* returned to thread tid is totals[d + d/32] + scratch[tid], d its digit.
C16_PhasesB ==
    ~RegimeA =>
        /\ AtBarrier(2) =>
              \A d \in Digits :
                 /\ At(totals_shared, d + d \div 32) = DuplicatesBelow(d, NumDuplicates)
                 /\ \A i \in 0..(NumDuplicates - 1) :
                       At(counts_shared, i * NumDigits + d) = DuplicatesBelow(d, i)
        /\ AtBarrier(3) =>
              \A d \in Digits : At(totals_shared, d + d \div 32) = TotalsBelow(d)
        /\ Done =>
              \A tid \in Threads :
                 At(scanResult, tid) =
                     At(totals_shared, (tid % NumDigits) + (tid % NumDigits) \div 32)
                     + At(counts_shared, tid)

\* regime B with more than 32 digits at the barrier of line 108, a digit
\* beyond the first padding slot having counts in two duplicates
C16_AtBarrier ==
    /\ NumBits > 5
    /\ AtBarrier(2)
    /\ \E d \in Digits : d >= 32 /\ At(counts_shared, NumDigits + d) > 0
                         /\ At(laneCount, NumDigits + d) > 0

\* regime B with more than 32 digits at the end, with a thread beyond the
\* first padding slot whose two summands are both positive
C16_Witness ==
    /\ NumBits > 5
    /\ Done
    /\ \E tid \in Threads :
          /\ tid % NumDigits >= 32
          /\ At(totals_shared, (tid % NumDigits) + (tid % NumDigits) \div 32) > 0
          /\ At(counts_shared, tid) > 0

----------------------------------------------------------------------------
(* Accesses of global memory *)

\* all accesses a log holds, whatever the warp
Accesses(log) == UNION {log[w] : w \in Warps}

\* thread tid is the one whose column has the block of slot s in its range
\* and whose digit is the digit of s
Owns(tid, s) ==
    /\ Lane2Of(tid) = s % NumDigits
    /\ TaskRange(ColOf(tid)).x <= s \div NumDigits
    /\ s \div NumDigits < TaskRange(ColOf(tid)).y

\* the slots a set of accesses is about
SlotsOf(acc) == {a[1] : a \in acc}

\* C17: whenever a thread reads a slot of blockTotals_global, in the upsweep
\* or in the downsweep, or stores to it, the slot is NumDigits*b + d of a
\* block b < numTasks, b is in the range of the thread's column and d is the
\* thread's digit; no slot is stored to twice; and when SortHist has ended,
\* every slot of a block b < numTasks has been read in the upsweep, read in
\* the downsweep and stored to, so that all accesses of a slot are by one
\* thread, however the warps are interleaved.
C17_Ownership ==
    LET up == Accesses(globalLog.up)
        down == Accesses(globalLog.down)
        wr == Accesses(globalLog.wr)
        n == NumDigits * numTasks
    IN /\ \A a \in up \cup down \cup wr :
             a[1] >= 0 /\ a[1] < n /\ Owns(a[2], a[1])
       /\ Cardinality(wr) = Cardinality(SlotsOf(wr))
       /\ Done => /\ SlotsOf(up) = 0..(n - 1)
                  /\ SlotsOf(down) = 0..(n - 1)
                  /\ SlotsOf(wr) = 0..(n - 1)

\* SortHist has ended after a launch in which a thread went twice through
\* its loops and stored to two slots, and another warp stored as well
C17_Witness ==
    /\ Done
    /\ \E a \in Accesses(globalLog.wr) : a[3] = 1
    /\ globalLog.wr[0] # {}
    /\ globalLog.wr[NumWarps - 1] # {}
    /\ globalLog.up[NumWarps - 1] = globalLog.down[NumWarps - 1]

\* C18: SortHist stores to blockTotals_global only at slots below
\* NumDigits*numTasks and every slot from there on keeps the content of the
\* launch, so that with numTasks = 0 nothing changes; it stores to
\* totalsScan_global only when given a pointer, then only at indices below
\* NumDigits, and every other entry keeps its content.
C18_Frame ==
    LET n == NumDigits * numTasks
    IN /\ \A a \in Accesses(globalLog.wr) : a[1] >= 0 /\ a[1] < n
       /\ \A i \in DOMAIN blockTotals_global :
             i >= n => blockTotals_global[i] = counts0[i]
       /\ numTasks = 0 => blockTotals_global = counts0
       /\ \A a \in Accesses(globalLog.ts) : hasTotals /\ a[1] >= 0 /\ a[1] < NumDigits
       /\ \A i \in DOMAIN totalsScan_global :
             (~hasTotals \/ i >= NumDigits) => totalsScan_global[i] = Untouched

\* SortHist has ended, has stored to the last slot below NumDigits*numTasks
\* and to the totals of all digits, and there are slots and entries beyond
C18_Witness ==
    /\ Done
    /\ hasTotals
    /\ numTasks > 0
    /\ NumDigits * numTasks - 1 \in SlotsOf(Accesses(globalLog.wr))
    /\ SlotsOf(Accesses(globalLog.ts)) = Digits
    /\ NumDigits * numTasks \in DOMAIN blockTotals_global
    /\ NumDigits \in DOMAIN totalsScan_global

\* SortHist has ended after a launch without tasks and without a pointer
C18_NothingToDo ==
    /\ Done
    /\ ~hasTotals
    /\ numTasks = 0
    /\ DOMAIN blockTotals_global # {}

----------------------------------------------------------------------------
(* Launches with counts up to 2^32 - 1 *)

\* counts whose sums pass 2^32 many times over (q = 0), and n counts whose
\* sum is the largest below 2^30 that n nearly equal counts can have (q = 1)
WideCount(q, i, n) ==
    IF q = 1 THEN ((Pow2(30) - 1) \div n) - (i % 2)
    ELSE CASE i % 4 = 0 -> MaxInt32
           [] i % 4 = 1 -> (0 - 1) - i
           [] i % 4 = 2 -> Pow2(30) + i
           [] OTHER -> MinInt32 + i

WideTasks(nb) == {SmallTasks, (NumThreads \div Pow2(nb)) + ExtraTasks}

WideInit ==
    \E nb \in InstantiatedNumBits : \E nt \in WideTasks(nb) : \E q \in {0, 1} :
        Launch(nb, nt, WithSpare([i \in 0..(Pow2(nb) * nt - 1) |->
                                      WideCount(q, i, Pow2(nb) * nt)],
                                 Pow2(nb) * nt), TRUE)

WideSpec == WideInit /\ [][Next]_vars

\* A natural number of any size as <<h, l>>, standing for h * 2^16 + l with
\* l < 2^16.  Wide(v) is the unsigned value of the 32-bit word v.
Half == Pow2(16)
Wide(v) == <<(v \div Half) % Half, v % Half>>
WideAdd(a, b) == <<a[1] + b[1] + (a[2] + b[2]) \div Half, (a[2] + b[2]) % Half>>
WideTimes4(a) == <<4 * a[1] + (4 * a[2]) \div Half, (4 * a[2]) % Half>>
WideMod32(a) == <<a[1] % Half, a[2]>>

\* the sum, of any size, of the launch counts of ranks lo .. hi
RECURSIVE WideSum(_, _)
WideSum(lo, hi) ==
    IF lo > hi THEN <<0, 0>>
    ELSE IF lo = hi THEN Wide(counts0[RankSlot(lo)])
    ELSE WideAdd(WideSum(lo, (lo + hi) \div 2), WideSum(((lo + hi) \div 2) + 1, hi))

\* C19: for counts of any size up to 2^32 - 1, the word SortHist has written
\* at the slot of (block b, digit d) is 4 times the sum of the counts ranked
\* before it (all blocks of the digits below d, then the blocks below b of
\* digit d), taken modulo 2^32; and it is 4 times that sum itself when the sum
\* of all counts is below 2^30.
C19_Wraparound ==
    (Done /\ numTasks > 0) =>
        \A all \in {WideSum(0, NumDigits * numTasks - 1)} :
        \A d \in Digits :
        \A below \in {WideSum(0, d * numTasks - 1)} :
        \A b \in Blocks :
        \A prefix \in {WideAdd(below, WideSum(d * numTasks, d * numTasks + b - 1))} :
           /\ Wide(blockTotals_global[SlotOf(b, d)]) = WideMod32(WideTimes4(prefix))
           /\ all[1] < Pow2(14) =>
                 Wide(blockTotals_global[SlotOf(b, d)]) = WideTimes4(prefix)

\* SortHist has ended after a launch in which a thread met two blocks and
\* in which 4 times the sum of the counts before some slot is beyond 2^32
C19_Witness ==
    /\ Done
    /\ numTasks > NumColumns
    /\ \E d \in Digits :
          WideTimes4(WideSum(0, d * numTasks - 1))[1] >= Half

\* SortHist has ended after a launch whose counts add up to less than 2^30
\* and to more than 2^29, the last offset written being beyond 2^31
C19_NoWrap ==
    /\ Done
    /\ numTasks > NumColumns
    /\ WideSum(0, NumDigits * numTasks - 1)[1] < Pow2(14)
    /\ WideSum(0, NumDigits * numTasks - 1)[1] >= Pow2(13)
    /\ blockTotals_global[SlotOf(numTasks - 1, NumDigits - 1)] < 0

----------------------------------------------------------------------------
(* Indices into shared memory *)

\* the slots of a memory that warp w has read or written in the running
\* barrier interval or in the one before
Indexed(log, prev, w) == SlotsTouched(log, w) \cup SlotsTouched(prev, w)

\* C20: every index at which a warp reads or writes counts_shared is at
\* least 0 and below 2*NumThreads, every index at which it reads or writes
\* totals_shared is at least 0 and below NumThreads, for every NumBits in
\* 1..7; and in the first interval of regime A, where a thread reads at
\* tid - offset, the indices of a warp stay within the 32 slots of the warp.
C20_InBounds ==
    /\ \A w \in Warps :
          /\ \A s \in Indexed(sharedLog, prevSharedLog, w) : s >= 0 /\ s < 2 * NumThreads
          /\ \A s \in Indexed(totalsLog, prevTotalsLog, w) : s >= 0 /\ s < NumThreads
    /\ (RegimeA /\ AtBarrier(1)) =>
          \A w \in Warps :
             \A s \in SlotsTouched(prevSharedLog, w) : s >= 32 * w /\ s < 32 * w + 32

\* the last warp has been through the first interval of regime A, in which
\* its threads read at tid - offset down to the first slot of the warp
C20_Witness ==
    /\ RegimeA
    /\ AtBarrier(1)
    /\ prevSharedLog.rd[NumWarps - 1] = (32 * (NumWarps - 1))..(32 * NumWarps - 1 - NumDigits)

\* the totals of 128 digits have been scanned, four to a thread, up to the
\* slot of the last digit and its three slots of padding before it
C20_Packed ==
    /\ NumBits = 7
    /\ AtBarrier(3)
    /\ 4 * 31 + 3 + 3 \in SlotsTouched(prevTotalsLog, 0)

====
